---- MODULE Spec2Model ----
(***************************************************************************)
(* Model of source/port/LINUX/tbxport.c: the Linux port of the MicroTBX    *)
(* critical section.  TbxPortInterruptsDisable and                         *)
(* TbxPortInterruptsRestore are modelled statement by statement, one       *)
(* action per access to the shared data (criticalSectionInitialized,       *)
(* interruptsDisabled, mtxCritSect), so that every interleaving of the     *)
(* calling threads is a behaviour of the model.                            *)
(***************************************************************************)
EXTENDS Integers, Sequences, FiniteSets

\* Number of calling threads.
NumThreads == 2

\* Total number of calls the threads start (a Restore that matches an open
\* Disable is always allowed, so that no thread is stopped inside its region).
MaxCalls == 6

\* Deepest nesting of Disable calls a caller that nests makes.
MaxDepth == 2

\* Largest value a caller passes as prev_cpu_sr.
MaxToken == 1

Threads == 1..NumThreads

\* Values of type tTbxPortCpuSR that callers pass to Restore.
Tokens == 0..MaxToken

\* No value: no Disable has returned yet, no Restore is running.
NoValue == -1

\* Value of mtxOwner for an unlocked mutex.
NoOwner == 0

VARIABLES
  criticalSectionInitialized,  \* tbxport.c:45
  interruptsDisabled,          \* tbxport.c:48
  mtxOwner,                    \* tbxport.c:51, the thread that holds mtxCritSect, or NoOwner
  mtxInits,                    \* number of pthread_mutex_init executions on mtxCritSect
  mtxMisuse,                   \* the undefined pthread operations executed on mtxCritSect
  pc,                          \* each thread's position in the function it executes
  assertFailed,                \* each thread: TBX_ASSERT of tbxport.c:110 failed
  client,                      \* each thread's calling discipline
  log,                         \* each thread's calls so far, "D" or "R", the running one last
  waitFor,                     \* each thread: the threads that were inside their region when
                               \* its running Disable started and have not called Restore since
  cpuSr,                       \* each thread: the value its last Disable returned (tbxport.c:88)
  prevCpuSr,                   \* each thread: parameter prev_cpu_sr of its running Restore
  heldSetBy,                   \* the thread whose line 83 set interruptsDisabled, NoOwner
                               \* while the flag is clear
  mtxInitFails                 \* environment: pthread_mutex_init returns an error

vars == <<criticalSectionInitialized, interruptsDisabled, mtxOwner, mtxInits, mtxMisuse,
          pc, assertFailed, client, log, waitFor, cpuSr, prevCpuSr, heldSetBy,
          mtxInitFails>>

(***************************************************************************)
(* The callers.                                                            *)
(***************************************************************************)

Front(s) == SubSeq(s, 1, Len(s) - 1)

Last(s) == s[Len(s)]

\* Open Disable calls of a call sequence: a Disable opens one, a Restore closes
\* one if any is open.
RECURSIVE Depth(_)
Depth(s) ==
  IF s = <<>> THEN 0
  ELSE LET d == Depth(Front(s))
       IN  IF Last(s) = "D" THEN d + 1 ELSE IF d > 0 THEN d - 1 ELSE 0

RECURSIVE CallsUpTo(_)
CallsUpTo(n) == IF n = 0 THEN 0 ELSE Len(log[n]) + CallsUpTo(n - 1)

TotalCalls == CallsUpTo(NumThreads)

Idle(t) == pc[t] = "idle"

InDisable(t) == pc[t] \in {"d_init", "d_setinit", "d_chkheld", "d_setheld", "d_lock"}

InRestore(t) == pc[t] \in {"r_chkheld", "r_unlock", "r_clear"}

\* Thread t is inside its protected region: a Disable of t has returned and the
\* matching Restore has not been called.
InRegion(t) ==
  IF InDisable(t) THEN Depth(Front(log[t])) > 0 ELSE Depth(log[t]) > 0

MayDisable(t) ==
  /\ client[t] # "none"
  /\ TotalCalls < MaxCalls
  /\ Depth(log[t]) < (IF client[t] = "pairs" THEN 1 ELSE MaxDepth)

MayRestore(t) ==
  \/ Depth(log[t]) > 0
  \/ client[t] \in {"free", "loose"} /\ TotalCalls < MaxCalls

\* The tokens thread t passes to Restore: the value its last Disable returned
\* when it has one; any value when it has none or is a "loose" caller.
CallerTokens(t) ==
  IF client[t] # "loose" /\ cpuSr[t] # NoValue THEN {cpuSr[t]} ELSE Tokens

(***************************************************************************)
(* pthread mutex operations on mtxCritSect (default attributes).           *)
(***************************************************************************)

\* pthread_mutex_init: a first initialisation yields an unlocked mutex.
\* Initialising an already initialised mutex is undefined: the mutex is either
\* reset to unlocked or keeps its owner.
\* A pthread_mutex_init that returns an error leaves the object as it was.
MutexInitOutcomes ==
  IF mtxInitFails THEN {mtxOwner}
  ELSE IF mtxInits = 0 THEN {NoOwner} ELSE {NoOwner, mtxOwner}

MutexInitMisuse == IF mtxInitFails \/ mtxInits = 0 THEN {} ELSE {"reinit"}

\* pthread_mutex_lock returns once the mutex is free, as its owner.
MutexCanLock == mtxOwner = NoOwner

\* Locking a mutex whose initialisation failed is undefined: the zeroed static
\* object either works as a mutex or the call returns an error at once, the
\* mutex not acquired.
MutexLockOutcomes(t) ==
  (IF MutexCanLock THEN {t} ELSE {}) \cup (IF mtxInitFails THEN {mtxOwner} ELSE {})

MutexLockMisuse == IF mtxInitFails THEN {"lock_uninit"} ELSE {}

\* pthread_mutex_unlock: the owner releases the mutex.  Unlocking a mutex
\* another thread holds, or one whose initialisation failed, is undefined: it
\* is either released or left as it is.
MutexUnlockOutcomes(t) ==
  IF ~mtxInitFails /\ (mtxOwner = t \/ mtxOwner = NoOwner)
    THEN {NoOwner} ELSE {NoOwner, mtxOwner}

MutexUnlockMisuse(t) ==
  (IF mtxOwner = t THEN {}
   ELSE IF mtxOwner = NoOwner THEN {"unlock_free"} ELSE {"unlock_other"})
    \cup (IF mtxInitFails THEN {"unlock_uninit"} ELSE {})

(***************************************************************************)
(* TbxPortInterruptsDisable, tbxport.c:62-89.                              *)
(***************************************************************************)

\* Line 69: result = 0, the value line 88 returns.
DisableResult == 0

\* Lines 69-72: the call starts and reads criticalSectionInitialized.
DisableCall(t) ==
  /\ Idle(t)
  /\ MayDisable(t)
  /\ log' = [log EXCEPT ![t] = Append(@, "D")]
  /\ waitFor' = [waitFor EXCEPT ![t] = {a \in Threads \ {t} : InRegion(a)}]
  /\ pc' = [pc EXCEPT ![t] =
              IF criticalSectionInitialized = FALSE THEN "d_init" ELSE "d_chkheld"]
  /\ UNCHANGED <<criticalSectionInitialized, interruptsDisabled, mtxOwner, mtxInits, mtxMisuse,
                 assertFailed, client,
                 cpuSr, prevCpuSr,
                 heldSetBy, mtxInitFails>>

\* Line 75 with the result of pthread_mutex_init asserted: a failure stops the
\* thread.
DisableMutexInit_ChecksResult(t) ==
  /\ pc[t] = "d_init"
  /\ \E o \in MutexInitOutcomes : mtxOwner' = o
  /\ mtxInits' = mtxInits + 1
  /\ mtxMisuse' = mtxMisuse \cup MutexInitMisuse
  /\ pc' = [pc EXCEPT ![t] = IF mtxInitFails THEN "halt" ELSE "d_setinit"]
  /\ UNCHANGED <<criticalSectionInitialized, interruptsDisabled, assertFailed,
                 client, log, waitFor, cpuSr, prevCpuSr, heldSetBy, mtxInitFails>>

\* Line 75: pthread_mutex_init, its result discarded.
DisableMutexInit(t) ==
  /\ pc[t] = "d_init"
  /\ \E o \in MutexInitOutcomes : mtxOwner' = o
  /\ mtxInits' = mtxInits + 1
  /\ mtxMisuse' = mtxMisuse \cup MutexInitMisuse
  /\ pc' = [pc EXCEPT ![t] = "d_setinit"]
  /\ UNCHANGED <<criticalSectionInitialized, interruptsDisabled, assertFailed,
                 client, log, waitFor,
                 cpuSr, prevCpuSr,
                 heldSetBy, mtxInitFails>>

\* Line 77 left out: the flag is not set.
DisableSetInitialized_Skipped(t) ==
  /\ pc[t] = "d_setinit"
  /\ pc' = [pc EXCEPT ![t] = "d_chkheld"]
  /\ UNCHANGED <<criticalSectionInitialized, interruptsDisabled, mtxOwner, mtxInits,
                 mtxMisuse, assertFailed, client, log, waitFor,
                 cpuSr, prevCpuSr,
                 heldSetBy, mtxInitFails>>

\* Line 77: criticalSectionInitialized = TBX_TRUE.
DisableSetInitialized(t) ==
  /\ pc[t] = "d_setinit"
  /\ criticalSectionInitialized' = TRUE
  /\ pc' = [pc EXCEPT ![t] = "d_chkheld"]
  /\ UNCHANGED <<interruptsDisabled, mtxOwner, mtxInits, mtxMisuse, assertFailed, client, log,
                 waitFor,
                 cpuSr, prevCpuSr,
                 heldSetBy, mtxInitFails>>

\* Line 81 without its test: the mutex is locked on every call.
DisableCheckHeld_AlwaysLock(t) ==
  /\ pc[t] = "d_chkheld"
  /\ pc' = [pc EXCEPT ![t] = "d_setheld"]
  /\ UNCHANGED <<criticalSectionInitialized, interruptsDisabled, mtxOwner, mtxInits,
                 mtxMisuse, assertFailed, client, log, waitFor,
                 cpuSr, prevCpuSr,
                 heldSetBy, mtxInitFails>>

\* Line 81: reads interruptsDisabled; when it is set the call returns (line 88).
DisableCheckHeld(t) ==
  /\ pc[t] = "d_chkheld"
  /\ IF interruptsDisabled = FALSE
       THEN /\ pc' = [pc EXCEPT ![t] = "d_setheld"]
            /\ UNCHANGED cpuSr
       ELSE /\ pc' = [pc EXCEPT ![t] = "idle"]
            /\ cpuSr' = [cpuSr EXCEPT ![t] = DisableResult]
  /\ UNCHANGED <<criticalSectionInitialized, interruptsDisabled, mtxOwner, mtxInits, mtxMisuse,
                 assertFailed, client, log, waitFor, prevCpuSr,
                 heldSetBy, mtxInitFails>>

\* Line 83: interruptsDisabled = TBX_TRUE, before the mutex is locked.
DisableSetHeld(t) ==
  /\ pc[t] = "d_setheld"
  /\ interruptsDisabled' = TRUE
  /\ heldSetBy' = t
  /\ pc' = [pc EXCEPT ![t] = "d_lock"]
  /\ UNCHANGED <<criticalSectionInitialized, mtxOwner, mtxInits, mtxMisuse, assertFailed, client,
                 log, waitFor, cpuSr, prevCpuSr, mtxInitFails>>

\* Line 84: pthread_mutex_lock, its result discarded, blocks until the mutex
\* is free; then the call returns (line 88).
DisableLock(t) ==
  /\ pc[t] = "d_lock"
  /\ \E o \in MutexLockOutcomes(t) : mtxOwner' = o
  /\ mtxMisuse' = mtxMisuse \cup MutexLockMisuse
  /\ pc' = [pc EXCEPT ![t] = "idle"]
  /\ cpuSr' = [cpuSr EXCEPT ![t] = DisableResult]
  /\ UNCHANGED <<criticalSectionInitialized, interruptsDisabled, mtxInits,
                 assertFailed, client, log, waitFor, prevCpuSr,
                 heldSetBy, mtxInitFails>>

(***************************************************************************)
(* TbxPortInterruptsRestore, tbxport.c:102-118.                            *)
(***************************************************************************)

\* The steps of Restore are written with the parameter prev_cpu_sr, k, in
\* scope, as the statements of the function have it.

\* Lines 102-110: the call starts with prev_cpu_sr = k, which line 107 marks
\* unused; TBX_ASSERT reads criticalSectionInitialized.  A failed assertion
\* stops the thread.
RestoreEntryWith(t, k) ==
  /\ Idle(t)
  /\ MayRestore(t)
  /\ log' = [log EXCEPT ![t] = Append(@, "R")]
  /\ waitFor' = [a \in Threads |->
                   IF a = t THEN {}
                   ELSE IF Depth(log[t]) <= 1 THEN waitFor[a] \ {t} ELSE waitFor[a]]
  /\ IF criticalSectionInitialized = TRUE
       THEN /\ pc' = [pc EXCEPT ![t] = "r_chkheld"]
            /\ UNCHANGED assertFailed
       ELSE /\ pc' = [pc EXCEPT ![t] = "halt"]
            /\ assertFailed' = [assertFailed EXCEPT ![t] = TRUE]
  /\ UNCHANGED <<criticalSectionInitialized, interruptsDisabled, mtxOwner, mtxInits, mtxMisuse,
                 client, cpuSr,
                 heldSetBy, mtxInitFails>>

\* The call with its argument: prev_cpu_sr = k for the time the call runs.
RestoreCallWith(t, k) ==
  /\ RestoreEntryWith(t, k)
  /\ prevCpuSr' = [prevCpuSr EXCEPT ![t] = k]

RestoreCall(t) == \E k \in CallerTokens(t) : RestoreCallWith(t, k)

\* Line 113 testing the parameter: the mutex is unlocked when prev_cpu_sr says
\* the interrupts were enabled before.
RestoreCheckHeldWith_ReadsToken(t, k) ==
  /\ pc[t] = "r_chkheld"
  /\ IF k = 0
       THEN /\ pc' = [pc EXCEPT ![t] = "r_unlock"]
            /\ UNCHANGED prevCpuSr
       ELSE /\ pc' = [pc EXCEPT ![t] = "idle"]
            /\ prevCpuSr' = [prevCpuSr EXCEPT ![t] = NoValue]
  /\ UNCHANGED <<criticalSectionInitialized, interruptsDisabled, mtxOwner, mtxInits, mtxMisuse,
                 assertFailed, client, log, waitFor, cpuSr,
                 heldSetBy, mtxInitFails>>

\* Line 113: reads interruptsDisabled; when it is clear the call returns.
RestoreCheckHeldWith(t, k) ==
  /\ pc[t] = "r_chkheld"
  /\ IF interruptsDisabled = TRUE
       THEN /\ pc' = [pc EXCEPT ![t] = "r_unlock"]
            /\ UNCHANGED prevCpuSr
       ELSE /\ pc' = [pc EXCEPT ![t] = "idle"]
            /\ prevCpuSr' = [prevCpuSr EXCEPT ![t] = NoValue]
  /\ UNCHANGED <<criticalSectionInitialized, interruptsDisabled, mtxOwner, mtxInits, mtxMisuse,
                 assertFailed, client, log, waitFor, cpuSr,
                 heldSetBy, mtxInitFails>>

\* Line 113 without its test: the mutex is unlocked on every call.
RestoreCheckHeld_AlwaysUnlock(t) ==
  /\ pc[t] = "r_chkheld"
  /\ pc' = [pc EXCEPT ![t] = "r_unlock"]
  /\ UNCHANGED <<criticalSectionInitialized, interruptsDisabled, mtxOwner, mtxInits,
                 mtxMisuse, assertFailed, client, log, waitFor, cpuSr, prevCpuSr,
                 heldSetBy, mtxInitFails>>

RestoreCheckHeld(t) == RestoreCheckHeldWith(t, prevCpuSr[t])

\* Line 115: pthread_mutex_unlock, its result discarded.
RestoreUnlockWith(t, k) ==
  /\ pc[t] = "r_unlock"
  /\ \E o \in MutexUnlockOutcomes(t) : mtxOwner' = o
  /\ mtxMisuse' = mtxMisuse \cup MutexUnlockMisuse(t)
  /\ pc' = [pc EXCEPT ![t] = "r_clear"]
  /\ UNCHANGED <<criticalSectionInitialized, interruptsDisabled, mtxInits, assertFailed,
                 client, log, waitFor, cpuSr, prevCpuSr,
                 heldSetBy, mtxInitFails>>

\* Line 115 calling pthread_mutex_lock in place of pthread_mutex_unlock.
RestoreUnlock_Locks(t) ==
  /\ pc[t] = "r_unlock"
  /\ MutexCanLock
  /\ mtxOwner' = t
  /\ pc' = [pc EXCEPT ![t] = "r_clear"]
  /\ UNCHANGED <<criticalSectionInitialized, interruptsDisabled, mtxInits, mtxMisuse,
                 assertFailed, client, log, waitFor, cpuSr, prevCpuSr,
                 heldSetBy, mtxInitFails>>

RestoreUnlock(t) == RestoreUnlockWith(t, prevCpuSr[t])

\* Line 116: interruptsDisabled = TBX_FALSE; the call returns.
RestoreClearHeldWith(t, k) ==
  /\ pc[t] = "r_clear"
  /\ interruptsDisabled' = FALSE
  /\ heldSetBy' = NoOwner
  /\ pc' = [pc EXCEPT ![t] = "idle"]
  /\ prevCpuSr' = [prevCpuSr EXCEPT ![t] = NoValue]
  /\ UNCHANGED <<criticalSectionInitialized, mtxOwner, mtxInits, mtxMisuse, assertFailed, client,
                 log, waitFor, cpuSr, mtxInitFails>>

\* Line 116 writing the other flag: criticalSectionInitialized = TBX_FALSE.
RestoreClearHeld_ClearsInitialized(t) ==
  /\ pc[t] = "r_clear"
  /\ criticalSectionInitialized' = FALSE
  /\ pc' = [pc EXCEPT ![t] = "idle"]
  /\ prevCpuSr' = [prevCpuSr EXCEPT ![t] = NoValue]
  /\ UNCHANGED <<interruptsDisabled, mtxOwner, mtxInits, mtxMisuse, assertFailed, client,
                 log, waitFor, cpuSr,
                 heldSetBy, mtxInitFails>>

\* Line 116 left out: the flag stays set.
RestoreClearHeld_Skipped(t) ==
  /\ pc[t] = "r_clear"
  /\ pc' = [pc EXCEPT ![t] = "idle"]
  /\ prevCpuSr' = [prevCpuSr EXCEPT ![t] = NoValue]
  /\ UNCHANGED <<criticalSectionInitialized, interruptsDisabled, mtxOwner, mtxInits,
                 mtxMisuse, assertFailed, client, log, waitFor, cpuSr,
                 heldSetBy, mtxInitFails>>

RestoreClearHeld(t) == RestoreClearHeldWith(t, prevCpuSr[t])

\* What a step of Restore by thread t does when prev_cpu_sr = k, the record of
\* k itself aside.
RestoreStepWith(t, k) ==
  \/ RestoreEntryWith(t, k)
  \/ RestoreCheckHeldWith(t, k)
  \/ RestoreUnlockWith(t, k)
  \/ RestoreClearHeldWith(t, k)

(***************************************************************************)
(* Specifications.                                                         *)
(***************************************************************************)

\* The state after program load (tbxport.c:45-51) with callers of discipline c;
\* f tells whether pthread_mutex_init fails.
InitState(c, f) ==
  /\ criticalSectionInitialized = FALSE
  /\ interruptsDisabled = FALSE
  /\ mtxOwner = NoOwner
  /\ mtxInits = 0
  /\ mtxMisuse = {}
  /\ pc = [t \in Threads |-> "idle"]
  /\ assertFailed = [t \in Threads |-> FALSE]
  /\ client = c
  /\ log = [t \in Threads |-> <<>>]
  /\ waitFor = [t \in Threads |-> {}]
  /\ cpuSr = [t \in Threads |-> NoValue]
  /\ prevCpuSr = [t \in Threads |-> NoValue]
  /\ heldSetBy = NoOwner
  /\ mtxInitFails = f

\* Every pthread_mutex_init succeeds.
InitWith(c) == InitState(c, FALSE)

\* Thread 1 calls Disable and Restore in any order, nested or unmatched; the
\* other threads repeat Disable, protected region, Restore.
Init == InitWith([t \in Threads |-> IF t = 1 THEN "free" ELSE "pairs"])

\* Every thread repeats Disable, protected region, Restore.
InitPairs == InitWith([t \in Threads |-> "pairs"])

\* Thread 1 runs alone and calls Disable and Restore in any order, passing any
\* value to Restore.
InitSingle == InitWith([t \in Threads |-> IF t = 1 THEN "loose" ELSE "none"])

\* The steps of a call already started, and the Restore call of a thread.
Progress(t) ==
  \/ DisableMutexInit(t)
  \/ DisableSetInitialized(t)
  \/ DisableCheckHeld(t)
  \/ DisableSetHeld(t)
  \/ DisableLock(t)
  \/ RestoreCall(t)
  \/ RestoreCheckHeld(t)
  \/ RestoreUnlock(t)
  \/ RestoreClearHeld(t)

Next == \E t \in Threads : DisableCall(t) \/ Progress(t)

Spec == Init /\ [][Next]_vars

SpecPairs == InitPairs /\ [][Next]_vars

SpecSingle == InitSingle /\ [][Next]_vars

\* Thread 1 runs alone, as in SpecSingle, and pthread_mutex_init fails.
InitFaulty == InitState([t \in Threads |-> IF t = 1 THEN "loose" ELSE "none"], TRUE)

SpecFaulty == InitFaulty /\ [][Next]_vars

\* A fair scheduler runs every thread that can take a step of a started call or
\* call its matching Restore; a fair mutex grants a waiter that is able to lock
\* again and again.  No thread is obliged to start another Disable.
Fairness == \A t \in Threads : WF_vars(Progress(t)) /\ SF_vars(DisableLock(t))

FairPairs == InitPairs /\ [][Next]_vars /\ Fairness

(***************************************************************************)
(* Claims.                                                                 *)
(***************************************************************************)

\* C1 (SpecPairs): mutual exclusion: at most one thread is inside its
\* protected region, between its Disable returning and its matching Restore
\* being called, at any time.
C1_MutualExclusion == Cardinality({t \in Threads : InRegion(t)}) <= 1

\* C2 (SpecPairs): blocking holds: a Disable call of thread b that started while
\* thread a was inside its region has not returned as long as a has not called
\* Restore.
C2_BlockingHolds ==
  \A b \in Threads : (Idle(b) /\ InRegion(b)) => waitFor[b] = {}

\* C3 (SpecPairs): one-time initialization: pthread_mutex_init is executed on
\* mtxCritSect at most once, and exactly once when a Disable call has got past
\* the initialization.
C3_InitOnce ==
  /\ mtxInits <= 1
  /\ criticalSectionInitialized => mtxInits = 1

\* C4 (FairPairs): liveness: under a fair scheduler and a fair mutex, with every
\* thread calling the Restore that matches its Disable, every Disable call
\* that has started eventually returns.  Stated for the executions in which
\* every pthread operation on the mutex is a defined one.
C4_DisableReturns == \A t \in Threads : InDisable(t) ~> (Idle(t) \/ mtxMisuse # {})

\* C5 (SpecSingle): nested exclusivity: the mutex stays held by the thread from
\* its outer Disable returning until its outer (last) Restore is called, also
\* after an inner Restore.
C5_NestedHeld == \A t \in Threads : InRegion(t) => mtxOwner = t

\* Thread t is blocked: it waits in pthread_mutex_lock for a held mutex.
Blocked(t) == pc[t] = "d_lock" /\ MutexLockOutcomes(t) = {}

IsPrefix(s, w) == Len(s) <= Len(w) /\ s = SubSeq(w, 1, Len(s))

NestedCalls == <<"D", "D", "R", "R">>

\* C6 (SpecSingle): nested no-op: a thread running alone that calls Disable,
\* Disable, Restore, Restore is never blocked (nor stopped) in any of the four
\* calls, and after the second Restore the mutex is unlocked and
\* interruptsDisabled is false.
C6_NestedNoOp ==
  \A t \in Threads :
    (log[t] # <<>> /\ IsPrefix(log[t], NestedCalls)) =>
      /\ ~Blocked(t)
      /\ pc[t] # "halt"
      /\ (log[t] = NestedCalls /\ Idle(t)) =>
           (mtxOwner = NoOwner /\ interruptsDisabled = FALSE)

C6_Witness == log[1] = NestedCalls /\ Idle(1)

\* The running or last call of t is a Restore made with no Disable open.
Unmatched(t) ==
  log[t] # <<>> /\ Last(log[t]) = "R" /\ Depth(Front(log[t])) = 0

\* The call sequence holds a Restore made with no Disable open.
RECURSIVE HadUnmatched(_)
HadUnmatched(s) ==
  IF s = <<>> THEN FALSE
  ELSE HadUnmatched(Front(s)) \/ (Last(s) = "R" /\ Depth(Front(s)) = 0)

\* A Restore made with no Disable open neither fails nor blocks nor touches the
\* mutex or interruptsDisabled.
UnmatchedIsNoOp(t) ==
  /\ ~assertFailed[t]
  /\ pc[t] \notin {"halt", "r_unlock", "r_clear"}
  /\ mtxOwner = NoOwner
  /\ interruptsDisabled = FALSE

\* After a Restore made with no Disable open, a Disable that has returned
\* holds the mutex and a Restore that has returned has released it.
LaterPairsWork(t) ==
  (HadUnmatched(log[t]) /\ Idle(t)) =>
     IF Last(log[t]) = "D"
       THEN mtxOwner = t /\ interruptsDisabled = TRUE
       ELSE mtxOwner = NoOwner /\ interruptsDisabled = FALSE

C8_HeldIffLocked == interruptsDisabled = TRUE <=> mtxOwner # NoOwner

\* C9 (Spec): assertion validity: for a thread that calls Restore only after a
\* Disable of its own has returned (its first call is a Disable), the
\* assertion at the start of Restore never fails, whatever the other threads
\* do meanwhile.
C9_AssertHolds ==
  \A t \in Threads : (log[t] # <<>> /\ log[t][1] = "D") => ~assertFailed[t]

\* A thread has passed the assertion, in a Restore beyond its matched pairs,
\* while another thread is still initializing the mutex.
C9_Witness ==
  \E t, u \in Threads :
    /\ pc[t] = "r_chkheld"
    /\ Unmatched(t)
    /\ log[t][1] = "D"
    /\ pc[u] \in {"d_init", "d_setinit"}

\* The three-state machine of the critical section.
AbsNext(st, op) ==
  CASE st = "Uninitialized" /\ op = "D" -> "Locked"
    [] st = "Unlocked" /\ op = "D" -> "Locked"
    [] st = "Locked" /\ op = "D" -> "Locked"
    [] st = "Locked" /\ op = "R" -> "Unlocked"
    [] st = "Unlocked" /\ op = "R" -> "Unlocked"
    [] OTHER -> "Undefined"

RECURSIVE AbsRun(_)
AbsRun(s) == IF s = <<>> THEN "Uninitialized" ELSE AbsNext(AbsRun(Front(s)), Last(s))

\* The state of the machine the concrete state stands for.
AbsOfConcrete ==
  IF criticalSectionInitialized = FALSE THEN "Uninitialized"
  ELSE IF interruptsDisabled = TRUE THEN "Locked" ELSE "Unlocked"

\* C10 (SpecSingle): state machine conformance: between the calls of a
\* sequence that begins with a Disable, the concrete state is the state the
\* machine Uninitialized/Unlocked/Locked reaches on the calls made (any Disable
\* leads to Locked, any Restore to Unlocked), and the mutex is locked exactly
\* in state Locked, by the caller.
C10_Conformance ==
  \A t \in Threads :
    (client[t] # "none" /\ Idle(t) /\ (log[t] # <<>> => log[t][1] = "D")) =>
       /\ AbsOfConcrete = AbsRun(log[t])
       /\ mtxOwner = (IF AbsRun(log[t]) = "Locked" THEN t ELSE NoOwner)

\* All five transitions taken: first Disable, nested Disable, Restore, extra
\* Restore, Disable from Unlocked.
C10_Witness == log[1] = <<"D", "D", "R", "R", "D">> /\ Idle(1)

\* C11 (Spec): the initialized flag is monotone: once
\* criticalSectionInitialized is true no step of any thread makes it false.
C11_InitializedMonotone ==
  [][criticalSectionInitialized = TRUE => criticalSectionInitialized' = TRUE]_vars

\* The flag is set, was written by two racing initializations, and a Restore
\* has run to its end since.
C11_Witness ==
  /\ criticalSectionInitialized = TRUE
  /\ mtxInits >= 2
  /\ \E t \in Threads : Idle(t) /\ log[t] # <<>> /\ Last(log[t]) = "R"

\* The steps of a started Restore call.
RestoreStep(t) == RestoreCheckHeld(t) \/ RestoreUnlock(t) \/ RestoreClearHeld(t)

\* Steps a Restore call at position p has left at most.
RestoreRank(p) ==
  CASE p = "r_chkheld" -> 3
    [] p = "r_unlock" -> 2
    [] p = "r_clear" -> 1
    [] OTHER -> 0

\* C12 (Spec): Restore never blocks: in every reachable state a Restore call
\* that has passed its assertion can take its next step, whatever the other
\* threads hold or wait for, and each of its steps leaves it fewer steps to
\* go, so it returns after at most three steps of its own.
C12_RestoreNeverBlocks ==
  \A t \in Threads :
    InRestore(t) =>
      /\ ENABLED RestoreStep(t)
      /\ ~ENABLED (RestoreStep(t) /\ RestoreRank(pc'[t]) >= RestoreRank(pc[t]))

\* A Restore is about to unlock while another thread holds the mutex and a
\* thread waits for it.
C12_Witness ==
  \E t, u \in Threads :
    /\ pc[t] = "r_unlock"
    /\ mtxOwner \notin {t, NoOwner}
    /\ Blocked(u)

\* C13 (SpecSingle): the token is immaterial: every Disable that returns has
\* returned 0, and every step that Restore takes with one value of prev_cpu_sr
\* is, with the same resulting state, the step it takes with any other value.
C13_TokenImmaterial ==
  [][\A t \in Threads :
       /\ cpuSr'[t] # NoValue => cpuSr'[t] = 0
       /\ (pc'[t] # pc[t] /\ \E k \in Tokens : RestoreStepWith(t, k))
            => \A k \in Tokens : RestoreStepWith(t, k)]_vars

\* A Restore runs with a token that is not the value Disable returned.
C13_Witness ==
  \E t \in Threads :
    /\ pc[t] = "r_clear"
    /\ cpuSr[t] = 0
    /\ prevCpuSr[t] \notin {0, NoValue}

\* C14 (SpecPairs): flag after lock: a thread whose running Disable has set
\* interruptsDisabled (it is past line 83) has acquired the mutex before; no
\* thread that waits for the mutex or has not acquired it yet has set the flag.
C14_FlagAfterLock ==
  \A t \in Threads : pc[t] = "d_lock" => mtxOwner = t

\* Thread b is about to read, at line 81, a flag that another thread set.
ReadsOthersFlag(b) ==
  /\ pc[b] = "d_chkheld"
  /\ interruptsDisabled = TRUE
  /\ heldSetBy \notin {b, NoOwner}

\* The call returns 0 at once; mutex and both flags stay as they are.
SkipsLock(b) ==
  /\ pc'[b] = "idle"
  /\ cpuSr'[b] = 0
  /\ UNCHANGED <<mtxOwner, mtxMisuse, interruptsDisabled, criticalSectionInitialized>>

\* C15 (SpecPairs): cross-thread skip: a Disable of thread b that reads
\* interruptsDisabled as TRUE because another thread set it can take its next
\* step (it does not block), and that step, whichever it is, returns from the
\* call without locking, the mutex and both flags unchanged.
C15_CrossThreadSkip ==
  \A b \in Threads :
    ReadsOthersFlag(b) =>
      /\ ENABLED (DisableCheckHeld(b) /\ SkipsLock(b))
      /\ ~ENABLED (DisableCheckHeld(b) /\ ~SkipsLock(b))

\* Thread b has returned from such a Disable: it is inside its region while
\* thread a, which set the flag, holds the mutex.
C15_Witness ==
  \E a, b \in Threads :
    /\ a # b
    /\ Idle(b) /\ Depth(log[b]) = 1 /\ Last(log[b]) = "D"
    /\ cpuSr[b] = 0
    /\ interruptsDisabled = TRUE /\ heldSetBy = a
    /\ mtxOwner = a

\* C16 (SpecFaulty): init failure is ignored: when pthread_mutex_init fails in
\* the first Disable of a thread running alone, that call has no error outcome
\* and runs on to its return; once it has returned, criticalSectionInitialized
\* is TRUE, pthread_mutex_lock has been attempted and the value returned is 0;
\* interruptsDisabled is set when it returns; and pthread_mutex_init is never
\* executed a second time.
C16_InitFailureIgnored ==
  mtxInitFails =>
    /\ mtxInits <= 1
    /\ \A t \in Threads :
         (log[t] # <<>> /\ log[t][1] = "D") =>
           /\ pc[t] # "halt" /\ ~assertFailed[t]
           /\ (Len(log[t]) = 1 /\ InDisable(t)) => ENABLED Progress(t)
           /\ (Len(log[t]) > 1 \/ Idle(t)) =>
                /\ mtxInits = 1
                /\ criticalSectionInitialized = TRUE
                /\ "lock_uninit" \in mtxMisuse
                /\ cpuSr[t] = 0
           /\ (log[t] = <<"D">> /\ Idle(t)) => interruptsDisabled = TRUE

\* After the failed initialisation a later Disable has returned as well.
C16_Witness ==
  \E t \in Threads :
    /\ mtxInitFails /\ mtxInits = 1
    /\ Idle(t)
    /\ Len(log[t]) >= 3 /\ log[t][1] = "D" /\ Last(log[t]) = "D"
    /\ criticalSectionInitialized = TRUE

\* C17 (SpecPairs): unlock only by owner: with every thread calling in matched
\* pairs, no pthread_mutex_unlock has been executed on the mutex while it was
\* free or while another thread held it.
C17_UnlockByOwner ==
  mtxMisuse \cap {"unlock_free", "unlock_other"} = {}

\* Every thread has returned from the Restore that matches its last Disable.
Quiescent == \A t \in Threads : Idle(t) /\ Depth(log[t]) = 0

\* C18 (SpecPairs): quiescent release: with every thread calling in matched
\* pairs, whenever all threads have returned from their last Restore (and no
\* undefined mutex operation has been executed on the way) the mutex is
\* unlocked and interruptsDisabled is FALSE.
C18_QuiescentRelease ==
  (Quiescent /\ mtxMisuse = {}) =>
    (mtxOwner = NoOwner /\ interruptsDisabled = FALSE)

====
